---------------------------- MODULE Spec2Model ----------------------------
(***************************************************************************)
(* The "Meeting Schedule" form of frappe-appointment, in its three         *)
(* revisions:                                                              *)
(*                                                                         *)
(*   "meetingForm"  src/frontend/src/pages/appointment/components/         *)
(*                  meetingForm.tsx                                        *)
(*   "part_000"     src/unnamed/part_000  (directory lookup, host picker)  *)
(*   "part_001"     src/unnamed/part_001  (userDocs is the empty literal)  *)
(*                                                                         *)
(* A behaviour is the life of one mounted form instance of one revision.   *)
(* Every action is one event handler of the component (or one step of the  *)
(* asynchronous submit pipeline).  State variables carry the names of      *)
(* meetingForm.tsx; the other revisions' names are given where they        *)
(* differ.                                                                 *)
(*                                                                         *)
(* Strings are sequences of one-character strings, so that trim(),         *)
(* includes("@"), join() and the e-mail pattern are computed on the        *)
(* characters.  A fixed text whose characters nothing inspects (a toast    *)
(* text, a server message, an id) is a one-element sequence holding the    *)
(* whole text.  null and undefined are the one-element sequences Null and  *)
(* Undefined.                                                              *)
(***************************************************************************)
EXTENDS Naturals, Sequences, FiniteSets

VARIABLES
    rev,                      \* which revision of the form is mounted
    directory,                \* part_000: the answer of useFrappeGetDocList
    chairperson,              \* form value "chairperson"
    chairperson_id,           \* form value "chairperson_id" (part_000, part_001)
    host,                     \* form value "host"
    participants,             \* form value "participants"
    chairpersonId,            \* useState chairpersonId
    users,                    \* meetingForm: useState users
    existingChairpersons,     \* part_000: useState existingChairpersons
    chairpersonOpen,          \* chairpersonOpen / isChairpersonDropdownOpen / isDropdownOpen
    participantsOpen,         \* participantsOpen / isParticipantsDropdownOpen / isParticipantsOpen
    participantsDropdownOpen, \* meetingForm: participantsDropdownOpen
    isHostDropdownOpen,       \* part_000: isHostDropdownOpen
    participantInput,         \* useState participantInput
    loading,                  \* `loading` of useFrappePostCall
    validating,               \* handleSubmit invocations awaiting the resolver
    calls,                    \* bookMeeting calls that are outstanding
    settled,                  \* outcomes of the finished bookMeeting calls
    onSuccessLog,             \* arguments of the onSuccess invocations
    toast                     \* text of the last notification shown

vars == << rev, directory, chairperson, chairperson_id, host, participants,
           chairpersonId, users, existingChairpersons, chairpersonOpen,
           participantsOpen, participantsDropdownOpen, isHostDropdownOpen,
           participantInput, loading, validating, calls, settled, onSuccessLog,
           toast >>

formState == << chairperson, chairpersonId, host, participants >>

-----------------------------------------------------------------------------
(* Bounds *)

MaxCalls == 2        \* submit pipelines (validating or called) per behaviour
MaxUsers == 2        \* meetingForm: length of the local users list
MaxParticipants == 2 \* length of the participants list

-----------------------------------------------------------------------------
(* Values *)

Null == << "null" >>
Undefined == << "undefined" >>

Revisions == { "meetingForm", "part_000", "part_001" }

\* JavaScript truthiness of a string | null | undefined value.
Truthy(v) == v # Null /\ v # Undefined /\ v # << >>

\* typeof v === "string"
IsString(v) == v # Null /\ v # Undefined

Letters == { "a", "b", "c", "d", "e", "u" }
Digits == { "1", "2" }
Whitespace == { " " }

\* The texts a user types into the three text fields: a name with a leading
\* blank, a valid e-mail address, a text with "@" that is no e-mail address,
\* an e-mail address within blanks.
ChairpersonTexts == { << " ", "a", "b" >> }
HostTexts == { << "c", "@", "d", ".", "e", "e" >> }
ParticipantTexts == { << "a", "@", "b" >>,
                      << " ", "a", "@", "b", ".", "c", "c" >> }

\* The participant texts by revision.  meetingForm.tsx makes a local user of
\* every text entered, so under Spec its participant input gets the e-mail
\* address only.
ParticipantTextsOf ==
    [ r \in Revisions |->
        IF r = "meetingForm" THEN { << " ", "a", "@", "b", ".", "c", "c" >> }
        ELSE ParticipantTexts ]

\* The larger sets of texts of SpecForm: also the empty text, a one-letter
\* name, texts without "@".
FormChairpersonTexts == ChairpersonTexts \cup { << >>, << "a" >> }
FormHostTexts == HostTexts \cup { << >>, << " ", "b" >> }
FormParticipantTexts ==
    [ r \in Revisions |-> ParticipantTexts \cup { << >>, << "b" >> } ]

\* What the directory lookup of part_000 can return: User documents with the
\* requested fields name, chairperson and host (a field may be missing).
DirectoryOne ==
    << [ name |-> << "u", "1" >>, chairperson |-> << "a", "b" >>,
         host |-> << "c", "@", "d", ".", "e", "e" >> ] >>
DirectoryFull ==
    DirectoryOne
        \o << [ name |-> << "u", "2" >>, chairperson |-> Null, host |-> Null ] >>
Directories == { DirectoryOne }
FormDirectories == { << >>, DirectoryOne, DirectoryFull }

\* What the booking endpoint can answer.
Responses == { << "booking-1" >>, << "booking-2" >> }
SlotGone == << "Slot no longer available" >>
Errors == { [ message |-> SlotGone ], [ message |-> Undefined ] }
NoError == [ message |-> Null ]

\* crypto.randomUUID(): the n-th id handed out, different from every other id.
UUIDs == << << "uuid-1" >>, << "uuid-2" >>, << "uuid-3" >>, << "uuid-4" >>,
           << "uuid-5" >>, << "uuid-6" >> >>

-----------------------------------------------------------------------------
(* String and array functions of the JavaScript runtime *)

\* String.prototype.trim
trim(s) ==
    LET keep == { i \in DOMAIN s : s[i] \notin Whitespace }
    IN  IF keep = {} THEN << >>
        ELSE SubSeq(s,
                    CHOOSE i \in keep : \A j \in keep : i <= j,
                    CHOOSE i \in keep : \A j \in keep : j <= i)

\* String.prototype.includes(c) for a one-character c; Array.prototype.includes
includes(s, x) == \E i \in DOMAIN s : s[i] = x

\* A filter with the test inverted: (p) => p === x
filterOutKeeping(list, x) == SelectSeq(list, LAMBDA p : p = x)

\* Array.prototype.filter((p) => p !== x)
filterOut(list, x) == SelectSeq(list, LAMBDA p : p # x)

\* Array.prototype.find, by index: the least of the indices `hits` of the
\* elements that satisfy the test, 0 when there is none (indices start at 1).
firstOf(hits) ==
    IF hits = {} THEN 0
    ELSE CHOOSE i \in hits : \A j \in hits : i <= j

\* Array.prototype.join(sep); null and undefined elements join as "".
RECURSIVE join(_, _)
join(list, sep) ==
    IF list = << >> THEN << >>
    ELSE LET h == IF IsString(Head(list)) THEN Head(list) ELSE << >>
         IN  IF Len(list) = 1 THEN h
             ELSE h \o sep \o join(Tail(list), sep)

-----------------------------------------------------------------------------
(* zod *)

\* z.string().email(): zod's pattern
\*   ^(?!\.)(?!.*\.\.)([A-Z0-9_'+\-\.]*)[A-Z0-9_+-]@([A-Z0-9][A-Z0-9\-]*\.)+[A-Z]{2,}$   (/i)
AlphaNum == Letters \cup Digits
LocalChars == AlphaNum \cup { "_", "'", "+", "-", "." }
LocalLast == AlphaNum \cup { "_", "+", "-" }
DomainChars == AlphaNum \cup { "-" }

DomainMatches(d) ==
    \E j \in DOMAIN d :
        /\ d[j] = "."
        /\ Len(d) - j >= 2
        /\ \A i \in (j + 1)..Len(d) : d[i] \in Letters
        /\ \A i \in 1..j :
              /\ d[i] \in DomainChars \cup { "." }
              /\ (i = 1 \/ d[i - 1] = ".") => d[i] \in AlphaNum

zEmail(s) ==
    /\ IsString(s)
    /\ s # << >>
    /\ s[1] # "."
    /\ \A i \in 1..(Len(s) - 1) : ~ (s[i] = "." /\ s[i + 1] = ".")
    /\ \E k \in 2..Len(s) :
          /\ s[k] = "@"
          /\ \A i \in 1..(k - 2) : s[i] \in LocalChars
          /\ s[k - 1] \in LocalLast
          /\ DomainMatches(SubSeq(s, k + 1, Len(s)))

\* z.string().min(n)
zMin(s, n) == IsString(s) /\ Len(s) >= n

\* A schema whose participants are z.array(z.string()): no e-mail check on
\* the entries.
meetingFormSchemaAnyParticipants(r, data) ==
    /\ zMin(data.chairperson, IF r = "meetingForm" THEN 1 ELSE 2)
    /\ zEmail(data.host)

\* meetingFormSchema of revision r, applied to the form values.
meetingFormSchema(r, data) ==
    /\ zMin(data.chairperson, IF r = "meetingForm" THEN 1 ELSE 2)
    /\ zEmail(data.host)
    /\ \A i \in DOMAIN data.participants : zEmail(data.participants[i])

-----------------------------------------------------------------------------
(* Derived values of a render *)

\* userDocs: part_000 maps the fetched User documents (`users` is undefined
\* until they are loaded, and stays so when the lookup fails), part_001 has
\* the empty literal, meetingForm.tsx has no directory.
userDocs ==
    IF rev = "part_000" /\ directory.loaded
    THEN [ i \in DOMAIN directory.users |->
             [ id |-> directory.users[i].name,
               name |-> IF Truthy(directory.users[i].chairperson)
                        THEN directory.users[i].chairperson
                        ELSE directory.users[i].name,
               email |-> directory.users[i].host ] ]
    ELSE << >>

\* part_000: existingChairpersons, then the userDocs not among them by id.
mergedChairpersons ==
    existingChairpersons
        \o SelectSeq(userDocs,
                     LAMBDA user : \A i \in DOMAIN existingChairpersons :
                                       existingChairpersons[i].id # user.id)

\* The candidates the chairperson dropdown lists.
chairpersonCandidates ==
    CASE rev = "meetingForm" -> users
      [] rev = "part_000" -> mergedChairpersons
      [] OTHER -> userDocs

\* The candidates the participants dropdown lists.
participantCandidates ==
    IF rev = "meetingForm"
    THEN SelectSeq(users, LAMBDA u : Truthy(u.email))
    ELSE userDocs

\* disabled={loading} on the inputs and buttons of part_000 and part_001.
inputsDisabled == rev # "meetingForm" /\ loading

\* No handleSubmit invocation is awaiting its resolver.  The resolver answers
\* in the microtasks of the task that dispatched the submit event, so the
\* next input event or network answer is handled after it; only a submit
\* event dispatched in the same task (a double dispatch) comes in between.
inputIdle == validating = << >>

\* The chairperson dropdown is rendered.
chairpersonDropdownShown ==
    IF rev = "meetingForm" THEN chairpersonOpen /\ users # << >>
    ELSE chairpersonOpen

\* The participants dropdown is rendered: inside the participants section,
\* on participantsDropdownOpen (meetingForm), on the section's own flag
\* (part_000), on the flag shared with the chairperson dropdown (part_001).
participantsDropdownShown ==
    /\ participantsOpen
    /\ CASE rev = "meetingForm" -> participantsDropdownOpen
         [] rev = "part_000" -> TRUE
         [] OTHER -> chairpersonOpen

-----------------------------------------------------------------------------
(* Helpers of the component *)

\* meetingForm.tsx addUserIfMissing(name, email): the user returned and the
\* users list afterwards.
addUserIfMissing(us, name, mail) ==
    LET existing == firstOf({ i \in DOMAIN us :
                                \/ us[i].name = name
                                \/ (Truthy(mail) /\ us[i].email = mail) })
        newUser == [ id |-> UUIDs[Len(us) + 1], name |-> name, email |-> mail ]
    IN  IF existing # 0
        THEN [ user |-> us[existing], users |-> us ]
        ELSE [ user |-> newUser, users |-> Append(us, newUser) ]

\* An addParticipant that forgets setParticipantInput("").
addParticipantResultKeepingInput(current, input) ==
    LET mail == trim(input)
    IN  IF mail # << >> /\ includes(mail, "@") /\ ~ includes(current, mail)
        THEN [ participants |-> Append(current, mail), participantInput |-> input,
               added |-> TRUE ]
        ELSE [ participants |-> current, participantInput |-> input,
               added |-> FALSE ]

\* An addParticipant without the includes("@") test.
addParticipantResultNoAtCheck(current, input) ==
    LET mail == trim(input)
    IN  IF mail # << >> /\ ~ includes(current, mail)
        THEN [ participants |-> Append(current, mail), participantInput |-> << >>,
               added |-> TRUE ]
        ELSE [ participants |-> current, participantInput |-> input,
               added |-> FALSE ]

\* addParticipant(): the participants list and the input buffer afterwards.
addParticipantResult(current, input) ==
    LET mail == trim(input)
    IN  IF mail # << >> /\ includes(mail, "@") /\ ~ includes(current, mail)
        THEN [ participants |-> Append(current, mail), participantInput |-> << >>,
               added |-> TRUE ]
        ELSE [ participants |-> current, participantInput |-> input,
               added |-> FALSE ]

\* A dropdown handler that appends in every revision, as part_001 does.
pickParticipantUnchecked(r, current, mail) == Append(current, mail)

\* The participants list after a click on a candidate of the participants
\* dropdown: meetingForm.tsx and part_000 skip an e-mail already in the list,
\* part_001 appends unconditionally.
pickParticipantResult(r, current, mail) ==
    IF r # "part_001" /\ includes(current, mail) THEN current
    ELSE Append(current, mail)

\* The separator of data.participants.join(...)
separator(r) == IF r = "meetingForm" THEN << "," >> ELSE << ",", " " >>

\* The chairperson, host and participant fields of the payload of onSubmit.
payloadOf(r, data, id) ==
    [ chairperson_name |-> data.chairperson,
      chairperson_id |-> id,
      host_email |-> data.host,
      participants |-> join(data.participants, separator(r)) ]

\* @/lib/utils parseFrappeErrorMsg: the message the error carries, if any.
parseFrappeErrorMsg(err) ==
    IF IsString(err.message) THEN err.message ELSE Undefined

UnableToSchedule == << "Unable to schedule meeting" >>
SomethingWentWrong == << "Something went wrong" >>
SelectValidChairperson == << "Please select a valid chairperson" >>
UnderDevelopment == << "Add new chairperson feature is under development." >>

\* A failure handler without the `|| "Something went wrong"`.
failureTextNoFallback(r, err) ==
    IF r = "meetingForm" THEN UnableToSchedule ELSE parseFrappeErrorMsg(err)

\* The text the failure handler of onSubmit passes to toast.
failureText(r, err) ==
    IF r = "meetingForm" THEN UnableToSchedule
    ELSE LET error == parseFrappeErrorMsg(err)
         IN  IF Truthy(error) THEN error ELSE SomethingWentWrong

-----------------------------------------------------------------------------
(* The mounted form *)

Init ==
    /\ rev \in Revisions
    /\ directory = [ loaded |-> FALSE, users |-> << >> ]
    /\ chairperson = << >>
    /\ chairperson_id = << >>
    /\ host = << >>
    /\ participants = << >>
    /\ chairpersonId = IF rev = "meetingForm" THEN << >> ELSE Null
    /\ users = << >>
    /\ existingChairpersons = << >>
    /\ chairpersonOpen = FALSE
    /\ participantsOpen = FALSE
    /\ participantsDropdownOpen = FALSE
    /\ isHostDropdownOpen = FALSE
    /\ participantInput = << >>
    /\ loading = FALSE
    /\ validating = << >>
    /\ calls = << >>
    /\ settled = << >>
    /\ onSuccessLog = << >>
    /\ toast = Null

formVars == << chairperson, chairperson_id, host, participants >>
chairVars == << chairpersonId, users, existingChairpersons >>
openVars == << chairpersonOpen, participantsOpen, participantsDropdownOpen,
               isHostDropdownOpen >>
submitVars == << loading, validating, calls, settled, onSuccessLog >>

-----------------------------------------------------------------------------
(* Directory lookup (part_000) *)

\* useFrappeGetDocList delivers its data.
DirectoryLoads(d) ==
    /\ inputIdle
    /\ rev = "part_000"
    /\ ~ directory.loaded
    /\ directory' = [ loaded |-> TRUE, users |-> d ]
    /\ UNCHANGED << rev, formVars, chairVars, openVars, participantInput,
                    submitVars, toast >>

-----------------------------------------------------------------------------
(* Chairperson field *)

\* meetingForm.tsx: onFocus of the input; part_000: onClick of the input.
ChairpersonFocus ==
    /\ inputIdle
    /\ rev \in { "meetingForm", "part_000" }
    /\ ~ inputsDisabled
    /\ chairpersonOpen' = TRUE
    /\ UNCHANGED << rev, directory, formVars, chairVars, participantsOpen,
                    participantsDropdownOpen, isHostDropdownOpen,
                    participantInput, submitVars, toast >>

\* onChange of the input: field.onChange, and in meetingForm.tsx
\* setChairpersonId("").
ChairpersonChange(text) ==
    /\ inputIdle
    /\ ~ inputsDisabled
    /\ text # chairperson
    /\ chairperson' = text
    /\ chairpersonId' = IF rev = "meetingForm" THEN << >> ELSE chairpersonId
    /\ UNCHANGED << rev, directory, chairperson_id, host, participants, users,
                    existingChairpersons, openVars, participantInput,
                    submitVars, toast >>

\* A syncChairperson that looks the field's text up without trimming it.
ChairpersonBlurUntrimmed ==
    /\ inputIdle
    /\ rev = "meetingForm"
    /\ LET found == addUserIfMissing(users, chairperson, Null)
       IN  IF trim(chairperson) = << >>
           THEN UNCHANGED << users, chairpersonId, chairpersonOpen >>
           ELSE /\ Len(found.users) <= MaxUsers
                /\ users' = found.users
                /\ chairpersonId' = found.user.id
                /\ chairpersonOpen' = FALSE
    /\ UNCHANGED << rev, directory, formVars, existingChairpersons,
                    participantsOpen, participantsDropdownOpen,
                    isHostDropdownOpen, participantInput, submitVars, toast >>

\* meetingForm.tsx: onBlur of the input, syncChairperson.
ChairpersonBlur ==
    /\ inputIdle
    /\ rev = "meetingForm"
    /\ LET name == trim(chairperson)
           found == addUserIfMissing(users, name, Null)
       IN  IF name = << >>
           THEN UNCHANGED << users, chairpersonId, chairpersonOpen >>
           ELSE /\ Len(found.users) <= MaxUsers
                /\ users' = found.users
                /\ chairpersonId' = found.user.id
                /\ chairpersonOpen' = FALSE
    /\ UNCHANGED << rev, directory, formVars, existingChairpersons,
                    participantsOpen, participantsDropdownOpen,
                    isHostDropdownOpen, participantInput, submitVars, toast >>

\* onClick of the chevron button of the chairperson field.
ChairpersonToggle ==
    /\ inputIdle
    /\ ~ inputsDisabled
    /\ chairpersonOpen' = ~ chairpersonOpen
    /\ UNCHANGED << rev, directory, formVars, chairVars, participantsOpen,
                    participantsDropdownOpen, isHostDropdownOpen,
                    participantInput, submitVars, toast >>

\* A pick handler that sets the name and forgets setChairpersonId(user.id).
SelectChairpersonNameOnly(i) ==
    /\ inputIdle
    /\ chairpersonDropdownShown
    /\ i \in DOMAIN chairpersonCandidates
    /\ chairperson' = chairpersonCandidates[i].name
    /\ chairpersonOpen' = FALSE
    /\ UNCHANGED << rev, directory, chairperson_id, host, participants,
                    chairVars, participantsOpen, participantsDropdownOpen,
                    isHostDropdownOpen, participantInput, submitVars, toast >>

\* A candidate of the chairperson dropdown is picked: onMouseDown in
\* meetingForm.tsx, handleSelectChairperson in part_000 and part_001.
SelectChairperson(i) ==
    /\ inputIdle
    /\ chairpersonDropdownShown
    /\ i \in DOMAIN chairpersonCandidates
    /\ LET user == chairpersonCandidates[i]
       IN  /\ chairperson' = user.name
           /\ chairperson_id' = IF rev = "meetingForm" THEN chairperson_id
                                ELSE user.id
           /\ chairpersonId' = user.id
           /\ existingChairpersons' =
                  IF /\ rev = "part_000"
                     /\ \A k \in DOMAIN existingChairpersons :
                            existingChairpersons[k].id # user.id
                  THEN Append(existingChairpersons, user)
                  ELSE existingChairpersons
    /\ chairpersonOpen' = FALSE
    /\ UNCHANGED << rev, directory, host, participants, users, participantsOpen,
                    participantsDropdownOpen, isHostDropdownOpen,
                    participantInput, submitVars, toast >>

\* "Add New Chairperson": handleAddNewChairperson in part_000, the inline
\* handler in part_001.
AddNewChairperson ==
    /\ inputIdle
    /\ rev \in { "part_000", "part_001" }
    /\ chairpersonDropdownShown
    /\ chairpersonOpen' = FALSE
    /\ toast' = IF rev = "part_000" THEN UnderDevelopment ELSE toast
    /\ UNCHANGED << rev, directory, formVars, chairVars, participantsOpen,
                    participantsDropdownOpen, isHostDropdownOpen,
                    participantInput, submitVars >>

-----------------------------------------------------------------------------
(* Host field *)

\* onChange of the host input (meetingForm.tsx, part_001; read-only in part_000).
HostChange(text) ==
    /\ inputIdle
    /\ rev \in { "meetingForm", "part_001" }
    /\ ~ inputsDisabled
    /\ text # host
    /\ host' = text
    /\ UNCHANGED << rev, directory, chairperson, chairperson_id, participants,
                    chairVars, openVars, participantInput, submitVars, toast >>

\* meetingForm.tsx: onBlur of the host input,
\* addUserIfMissing(e.target.value, e.target.value).
HostBlur ==
    /\ inputIdle
    /\ rev = "meetingForm"
    /\ LET found == addUserIfMissing(users, host, host)
       IN  /\ Len(found.users) <= MaxUsers
           /\ users' = found.users
    /\ UNCHANGED << rev, directory, formVars, chairpersonId,
                    existingChairpersons, openVars, participantInput,
                    submitVars, toast >>

\* part_000: onClick of the read-only host input.
HostFocus ==
    /\ inputIdle
    /\ rev = "part_000"
    /\ isHostDropdownOpen' = TRUE
    /\ UNCHANGED << rev, directory, formVars, chairVars, chairpersonOpen,
                    participantsOpen, participantsDropdownOpen,
                    participantInput, submitVars, toast >>

\* part_000: onClick of the chevron button of the host field.
HostToggle ==
    /\ inputIdle
    /\ rev = "part_000"
    /\ isHostDropdownOpen' = ~ isHostDropdownOpen
    /\ UNCHANGED << rev, directory, formVars, chairVars, chairpersonOpen,
                    participantsOpen, participantsDropdownOpen,
                    participantInput, submitVars, toast >>

\* part_000: a user of the host dropdown is picked.
SelectHost(i) ==
    /\ inputIdle
    /\ rev = "part_000"
    /\ isHostDropdownOpen
    /\ i \in DOMAIN userDocs
    /\ host' = userDocs[i].email
    /\ isHostDropdownOpen' = FALSE
    /\ UNCHANGED << rev, directory, chairperson, chairperson_id, participants,
                    chairVars, chairpersonOpen, participantsOpen,
                    participantsDropdownOpen, participantInput, submitVars,
                    toast >>

-----------------------------------------------------------------------------
(* Participants *)

\* onClick of "+ Add Participants" / "Hide Participants".
ParticipantsToggle ==
    /\ inputIdle
    /\ ~ inputsDisabled
    /\ participantsOpen' = ~ participantsOpen
    /\ UNCHANGED << rev, directory, formVars, chairVars, chairpersonOpen,
                    participantsDropdownOpen, isHostDropdownOpen,
                    participantInput, submitVars, toast >>

\* onChange of the participant input.
ParticipantInputChange(text) ==
    /\ inputIdle
    /\ participantsOpen
    /\ ~ inputsDisabled
    /\ text # participantInput
    /\ participantInput' = text
    /\ UNCHANGED << rev, directory, formVars, chairVars, openVars, submitVars,
                    toast >>

\* addParticipant(), called by onKeyDown (Enter or ",") of the participant
\* input and, in part_000 and part_001, by its onBlur.  meetingForm.tsx also
\* records the e-mail as a local user.
AddParticipant ==
    /\ inputIdle
    /\ participantsOpen
    /\ ~ inputsDisabled
    /\ LET result == addParticipantResult(participants, participantInput)
           found == addUserIfMissing(users, trim(participantInput),
                                     trim(participantInput))
       IN  /\ Len(result.participants) <= MaxParticipants
           /\ participants' = result.participants
           /\ participantInput' = result.participantInput
           /\ IF rev = "meetingForm" /\ result.added
              THEN /\ Len(found.users) <= MaxUsers
                   /\ users' = found.users
              ELSE users' = users
    /\ UNCHANGED << rev, directory, chairperson, chairperson_id, host,
                    chairpersonId, existingChairpersons, openVars, submitVars,
                    toast >>

\* onClick of the chevron button of the participant input: toggles
\* participantsDropdownOpen (meetingForm.tsx), isParticipantsDropdownOpen,
\* which is the section's flag (part_000), isDropdownOpen, which is the
\* chairperson dropdown's flag (part_001).
ParticipantsDropdownToggle ==
    /\ inputIdle
    /\ participantsOpen
    /\ ~ inputsDisabled
    /\ participantsDropdownOpen' =
           IF rev = "meetingForm" THEN ~ participantsDropdownOpen
           ELSE participantsDropdownOpen
    /\ participantsOpen' =
           IF rev = "part_000" THEN ~ participantsOpen ELSE participantsOpen
    /\ chairpersonOpen' =
           IF rev = "part_001" THEN ~ chairpersonOpen ELSE chairpersonOpen
    /\ UNCHANGED << rev, directory, formVars, chairVars, isHostDropdownOpen,
                    participantInput, submitVars, toast >>

\* A candidate of the participants dropdown is picked: onMouseDown in
\* meetingForm.tsx (which closes the dropdown), onClick in part_000 and
\* part_001.
PickParticipant(i) ==
    /\ inputIdle
    /\ participantsDropdownShown
    /\ i \in DOMAIN participantCandidates
    /\ LET picked == pickParticipantResult(rev, participants,
                                           participantCandidates[i].email)
       IN  /\ Len(picked) <= MaxParticipants
           /\ participants' = picked
    /\ participantsDropdownOpen' =
           IF rev = "meetingForm" THEN FALSE ELSE participantsDropdownOpen
    /\ UNCHANGED << rev, directory, chairperson, chairperson_id, host,
                    chairVars, chairpersonOpen, participantsOpen,
                    isHostDropdownOpen, participantInput, submitVars, toast >>

\* "Add New Participant" (part_000, part_001): closes the chairperson
\* dropdown's flag and calls addParticipant().
AddNewParticipant ==
    /\ inputIdle
    /\ rev \in { "part_000", "part_001" }
    /\ participantsDropdownShown
    /\ chairpersonOpen' = FALSE
    /\ LET result == addParticipantResult(participants, participantInput)
       IN  /\ Len(result.participants) <= MaxParticipants
           /\ participants' = result.participants
           /\ participantInput' = result.participantInput
    /\ UNCHANGED << rev, directory, chairperson, chairperson_id, host,
                    chairVars, participantsOpen, participantsDropdownOpen,
                    isHostDropdownOpen, submitVars, toast >>

\* removeParticipant(email), from the X of a participant chip.
RemoveParticipant(mail) ==
    /\ inputIdle
    /\ participantsOpen
    /\ includes(participants, mail)
    /\ participants' = filterOut(participants, mail)
    /\ UNCHANGED << rev, directory, chairperson, chairperson_id, host,
                    chairVars, openVars, participantInput, submitVars, toast >>

-----------------------------------------------------------------------------
(* Submission *)

\* The submit event: form.handleSubmit(onSubmit) hands the form values of
\* this moment to the zod resolver and awaits it.  The submit button is
\* disabled while loading.  What the resolver will answer is fixed by the
\* values it was given: the queue holds that answer and, when the values
\* pass, the arguments of the onSubmit call to come (the onSubmit of this
\* render, which sees this render's chairpersonId).
Submit ==
    /\ ~ loading
    /\ Len(validating) + Len(calls) + Len(settled) < MaxCalls
    /\ LET data == [ chairperson |-> chairperson, host |-> host,
                     participants |-> participants ]
       IN  validating' =
               Append(validating,
                      IF meetingFormSchema(rev, data)
                      THEN [ valid |-> TRUE, data |-> data,
                             chairpersonId |-> chairpersonId ]
                      ELSE [ valid |-> FALSE ])
    /\ UNCHANGED << rev, directory, formVars, chairVars, openVars,
                    participantInput, loading, calls, settled, onSuccessLog,
                    toast >>

\* The resolver reports errors: handleSubmit does not call onSubmit.
SubmitInvalid ==
    /\ validating # << >>
    /\ ~ Head(validating).valid
    /\ validating' = Tail(validating)
    /\ UNCHANGED << rev, directory, formVars, chairVars, openVars,
                    participantInput, loading, calls, settled, onSuccessLog,
                    toast >>

\* The call of bookMeeting(payload) in onSubmit; useFrappePostCall sets
\* loading.
bookMeeting(data, id) ==
    /\ calls' = Append(calls, [ data |-> data,
                                payload |-> payloadOf(rev, data, id) ])
    /\ loading' = TRUE

\* An onSubmit without the chairpersonId check of meetingForm.tsx.
OnSubmitUnchecked ==
    /\ validating # << >>
    /\ Head(validating).valid
    /\ validating' = Tail(validating)
    /\ bookMeeting(Head(validating).data, Head(validating).chairpersonId)
    /\ UNCHANGED << rev, directory, formVars, chairVars, openVars,
                    participantInput, settled, onSuccessLog, toast >>

\* The resolver reports no error: handleSubmit calls onSubmit(data), which
\* (after the chairpersonId check of meetingForm.tsx) builds the payload and
\* calls bookMeeting.
OnSubmit ==
    /\ validating # << >>
    /\ Head(validating).valid
    /\ validating' = Tail(validating)
    /\ LET data == Head(validating).data
           id == Head(validating).chairpersonId
       IN  IF rev = "meetingForm" /\ ~ Truthy(id)
           THEN /\ toast' = SelectValidChairperson
                /\ UNCHANGED << calls, loading >>
           ELSE /\ bookMeeting(data, id)
                /\ UNCHANGED toast
    /\ UNCHANGED << rev, directory, formVars, chairVars, openVars,
                    participantInput, settled, onSuccessLog >>

\* The sequence without its i-th element.
without(seq, i) == SubSeq(seq, 1, i - 1) \o SubSeq(seq, i + 1, Len(seq))

\* A success handler `.then(() => onSuccess())`: the response is dropped.
BookingResolvesDroppingResponse(i, res) ==
    /\ inputIdle
    /\ i \in DOMAIN calls
    /\ calls' = without(calls, i)
    /\ settled' = Append(settled, [ status |-> "resolved", response |-> res,
                                    error |-> NoError ])
    /\ loading' = FALSE
    /\ onSuccessLog' = Append(onSuccessLog, Undefined)
    /\ UNCHANGED << rev, directory, formVars, chairVars, openVars,
                    participantInput, validating, toast >>

\* bookMeeting resolves with a response: loading is reset and onSuccess is
\* called with the response.
BookingResolves(i, res) ==
    /\ inputIdle
    /\ i \in DOMAIN calls
    /\ calls' = without(calls, i)
    /\ settled' = Append(settled, [ status |-> "resolved", response |-> res,
                                    error |-> NoError ])
    /\ loading' = FALSE
    /\ onSuccessLog' = Append(onSuccessLog, res)
    /\ UNCHANGED << rev, directory, formVars, chairVars, openVars,
                    participantInput, validating, toast >>

\* A failure handler that also calls form.reset() and clears chairpersonId.
BookingRejectsResettingForm(i, err) ==
    /\ inputIdle
    /\ i \in DOMAIN calls
    /\ calls' = without(calls, i)
    /\ settled' = Append(settled, [ status |-> "rejected", response |-> Null,
                                    error |-> err ])
    /\ loading' = FALSE
    /\ toast' = failureText(rev, err)
    /\ chairperson' = << >>
    /\ chairperson_id' = << >>
    /\ host' = << >>
    /\ participants' = << >>
    /\ chairpersonId' = IF rev = "meetingForm" THEN << >> ELSE Null
    /\ UNCHANGED << rev, directory, users, existingChairpersons, openVars,
                    participantInput, validating, onSuccessLog >>

\* A loading flag that only the success path resets.
BookingRejectsKeepingLoading(i, err) ==
    /\ inputIdle
    /\ i \in DOMAIN calls
    /\ calls' = without(calls, i)
    /\ settled' = Append(settled, [ status |-> "rejected", response |-> Null,
                                    error |-> err ])
    /\ toast' = failureText(rev, err)
    /\ UNCHANGED << rev, directory, formVars, chairVars, openVars,
                    participantInput, validating, loading, onSuccessLog >>

\* A failure handler that calls bookMeeting again with the same payload.
BookingRejectsRetrying(i, err) ==
    /\ inputIdle
    /\ i \in DOMAIN calls
    /\ settled' = Append(settled, [ status |-> "rejected", response |-> Null,
                                    error |-> err ])
    /\ loading' = TRUE
    /\ toast' = failureText(rev, err)
    /\ UNCHANGED << rev, directory, formVars, chairVars, openVars,
                    participantInput, validating, calls, onSuccessLog >>

\* bookMeeting rejects with an error: loading is reset and the failure
\* handler shows a notification.
BookingRejects(i, err) ==
    /\ inputIdle
    /\ i \in DOMAIN calls
    /\ calls' = without(calls, i)
    /\ settled' = Append(settled, [ status |-> "rejected", response |-> Null,
                                    error |-> err ])
    /\ loading' = FALSE
    /\ toast' = failureText(rev, err)
    /\ UNCHANGED << rev, directory, formVars, chairVars, openVars,
                    participantInput, validating, onSuccessLog >>

-----------------------------------------------------------------------------

\* The handlers of the form fields, the texts and directories drawn from
\* the given sets (the participant texts from the set given for the
\* revision).
Editing(directories, chairpersonTexts, hostTexts, participantTexts) ==
    \/ \E d \in directories : DirectoryLoads(d)
    \/ ChairpersonFocus
    \/ \E text \in chairpersonTexts : ChairpersonChange(text)
    \/ ChairpersonBlur
    \/ ChairpersonToggle
    \/ \E i \in DOMAIN chairpersonCandidates : SelectChairperson(i)
    \/ AddNewChairperson
    \/ \E text \in hostTexts : HostChange(text)
    \/ HostBlur
    \/ HostFocus
    \/ HostToggle
    \/ \E i \in DOMAIN userDocs : SelectHost(i)
    \/ ParticipantsToggle
    \/ \E text \in participantTexts[rev] : ParticipantInputChange(text)
    \/ AddParticipant
    \/ ParticipantsDropdownToggle
    \/ \E i \in DOMAIN participantCandidates : PickParticipant(i)
    \/ AddNewParticipant
    \/ \E i \in DOMAIN participants : RemoveParticipant(participants[i])

\* The submit pipeline.
Submitting ==
    \/ Submit
    \/ SubmitInvalid
    \/ OnSubmit
    \/ \E i \in DOMAIN calls, res \in Responses : BookingResolves(i, res)
    \/ \E i \in DOMAIN calls, err \in Errors : BookingRejects(i, err)

\* The whole form.
Next ==
    \/ Editing(Directories, ChairpersonTexts, HostTexts,
               ParticipantTextsOf)
    \/ Submitting

Spec == Init /\ [][Next]_vars

\* The form without its submit pipeline, on the larger sets of texts.  No
\* handler of the pipeline writes a form value, a candidate list, a dropdown
\* flag or the input buffer, and `loading` only disables handlers, so every
\* sequence of values these variables take under Spec on these texts is one
\* they take under SpecForm.
NextForm ==
    Editing(FormDirectories, FormChairpersonTexts, FormHostTexts,
            FormParticipantTexts)

SpecForm == Init /\ [][NextForm]_vars

\* The answers the form waits for: the resolver's to a submit event, the
\* booking endpoint's to a call.
Answering ==
    \/ SubmitInvalid
    \/ OnSubmit
    \/ \E i \in DOMAIN calls, res \in Responses : BookingResolves(i, res)
    \/ \E i \in DOMAIN calls, err \in Errors : BookingRejects(i, err)

\* The form reduced to what a submit needs: the chairperson and host fields,
\* the directory and host picker of part_000, the participant input, and the
\* submit pipeline.  The handlers left out change none of loading,
\* validating, calls and settled.
NextLive ==
    \/ \E d \in Directories : DirectoryLoads(d)
    \/ \E text \in ChairpersonTexts : ChairpersonChange(text)
    \/ ChairpersonBlur
    \/ \E text \in HostTexts : HostChange(text)
    \/ HostFocus
    \/ \E i \in DOMAIN userDocs : SelectHost(i)
    \/ ParticipantsToggle
    \/ \E text \in ParticipantTextsOf[rev] : ParticipantInputChange(text)
    \/ AddParticipant
    \/ Submit
    \/ Answering

\* The resolver is a promise that settles, and the HTTP request behind
\* bookMeeting ends with a response or with an error: an answer that is due
\* arrives.
SpecLive == Init /\ [][NextLive]_vars /\ WF_vars(Answering)

-----------------------------------------------------------------------------
(* Properties *)

\* A bookMeeting call settles in this step, as a rejection or as a success.
RejectionStep ==
    /\ Len(settled') = Len(settled) + 1
    /\ settled'[Len(settled')].status = "rejected"
ResolutionStep ==
    /\ Len(settled') = Len(settled) + 1
    /\ settled'[Len(settled')].status = "resolved"

\* C1: at any moment at most one bookMeeting call is outstanding, for every
\* interleaving of submit events, resolver answers and call resolutions.
C1_AtMostOneOutstandingCall == Len(calls) <= 1

\* C2: a bookMeeting call is started only with data whose chairperson name is
\* non-empty, whose host is a syntactically valid e-mail address and whose
\* participants all are syntactically valid e-mail addresses.
C2_CallsOnlyWithValidData ==
    \A i \in DOMAIN calls :
        /\ IsString(calls[i].data.chairperson)
        /\ calls[i].data.chairperson # << >>
        /\ zEmail(calls[i].data.host)
        /\ \A k \in DOMAIN calls[i].data.participants :
               zEmail(calls[i].data.participants[k])

\* A submit event has been handled with a valid chairperson and host and a
\* participant that is no e-mail address: the resolver's answer is on its
\* way and no call has been started.
C2_Witness ==
    /\ validating # << >>
    /\ ~ Head(validating).valid
    /\ Len(chairperson) >= 2
    /\ zEmail(host)
    /\ \E k \in DOMAIN participants : ~ zEmail(participants[k])
    /\ calls = << >>

C4_NotificationIsErrorMessage ==
    [][(RejectionStep /\ Truthy(settled'[Len(settled')].error.message))
          => toast' = settled'[Len(settled')].error.message]_vars

\* C5: when a bookMeeting call rejects and no message can be extracted from
\* the error, the notification text is a fixed non-empty fallback string; the
\* notification text is not blank for any rejection.
FallbackTexts == { SomethingWentWrong, UnableToSchedule }
C5_FallbackNeverBlank ==
    [][RejectionStep =>
          /\ Truthy(toast')
          /\ ~ Truthy(settled'[Len(settled')].error.message)
                => toast' \in FallbackTexts]_vars

\* A call of part_000 or part_001 has been rejected with an error without a
\* message and the fallback text is shown.
C5_Witness ==
    /\ rev # "meetingForm"
    /\ settled # << >>
    /\ settled[Len(settled)].status = "rejected"
    /\ ~ Truthy(settled[Len(settled)].error.message)
    /\ toast = SomethingWentWrong

\* The responses of the calls that resolved, in the order they resolved.
RECURSIVE resolvedResponses(_)
resolvedResponses(log) ==
    IF log = << >> THEN << >>
    ELSE LET rest == resolvedResponses(SubSeq(log, 1, Len(log) - 1))
             last == log[Len(log)]
         IN  IF last.status = "resolved" THEN Append(rest, last.response)
             ELSE rest

\* C6: onSuccess is invoked exactly once for each bookMeeting call that
\* resolves, with the response unchanged, and not for a call that rejects or
\* when no call was made; the success path does not change FormState.
C6_OnSuccessOncePerResolvedCall ==
    [][/\ onSuccessLog' = resolvedResponses(settled')
       /\ ResolutionStep => formState' = formState]_vars

\* Two calls have settled, one rejected and one resolved, and onSuccess has
\* been invoked once.
C6_Witness ==
    /\ Len(settled) = 2
    /\ \E i, k \in DOMAIN settled :
          settled[i].status = "rejected" /\ settled[k].status = "resolved"
    /\ Len(onSuccessLog) = 1
    /\ chairperson # << >>

\* C7: after any sequence of form operations participants holds no entry
\* twice.
C7_NoDuplicateParticipants ==
    \A i, k \in DOMAIN participants :
        i # k => participants[i] # participants[k]

\* The list holds two entries, the input buffer holds one of them again and
\* the dropdown offers a candidate whose e-mail is in the list.
C7_Witness ==
    /\ Len(participants) = 2
    /\ includes(participants, trim(participantInput))
    /\ participantsDropdownShown
    /\ \E i \in DOMAIN participantCandidates :
          includes(participants, participantCandidates[i].email)

\* C8: after any sequence of form operations every entry of participants is a
\* string that contains "@".
C8_ParticipantsContainAt ==
    \A i \in DOMAIN participants :
        IsString(participants[i]) /\ includes(participants[i], "@")

\* C9: after a chairperson candidate has been selected, any edit of the
\* chairperson text field clears chairpersonId, in every revision.
C9_EditClearsChairpersonId ==
    [][(/\ Truthy(chairpersonId)
        /\ \E i \in DOMAIN chairpersonCandidates :
              chairpersonCandidates[i].id = chairpersonId
        /\ \E text \in FormChairpersonTexts : ChairpersonChange(text))
          => ~ Truthy(chairpersonId')]_vars

\* C10: chairpersonId is non-empty only if the known candidates hold a
\* candidate with that id whose display name equals the text of the
\* chairperson field.
C10_ChairpersonIdMatchesName ==
    Truthy(chairpersonId) =>
        \E i \in DOMAIN chairpersonCandidates :
            /\ chairpersonCandidates[i].id = chairpersonId
            /\ chairpersonCandidates[i].name = chairperson

\* C11: picking a candidate in the chairperson dropdown sets chairpersonName
\* to the candidate's display name and chairpersonId to the candidate's id in
\* the same step, and leaves the chairperson dropdown closed.
C11_SelectSetsNameAndIdTogether ==
    [][\A i \in DOMAIN chairpersonCandidates :
          SelectChairperson(i) =>
              /\ chairperson' = chairpersonCandidates[i].name
              /\ chairpersonId' = chairpersonCandidates[i].id
              /\ ~ chairpersonOpen'
              /\ ~ chairpersonDropdownShown']_vars

\* part_000: the second user of the directory, whose display name falls back
\* to its id, has been picked: name and id are set and the dropdown is closed.
C11_Witness ==
    /\ rev = "part_000"
    /\ chairpersonId = << "u", "2" >>
    /\ chairperson = << "u", "2" >>
    /\ chairperson_id = chairpersonId
    /\ ~ chairpersonOpen
    /\ \E i \in DOMAIN existingChairpersons :
          existingChairpersons[i].id = chairpersonId

\* The participant input holds a text addParticipant accepts: its trimmed
\* value is non-empty and contains "@".
InputAccepted ==
    /\ trim(participantInput) # << >>
    /\ includes(trim(participantInput), "@")

\* C12: when the trimmed value of the participant input is empty or lacks
\* "@", addParticipant (from the keyboard, on blur, or through "Add New
\* Participant") leaves participants as it was.
C12_RejectedInputKeepsParticipants ==
    [][((AddParticipant \/ AddNewParticipant) /\ ~ InputAccepted)
          => participants' = participants]_vars

\* The participants section is open, the list holds an entry and the input
\* holds a text without "@": addParticipant is about to be called with it.
C12_Witness ==
    /\ participantsOpen
    /\ participants # << >>
    /\ participantInput = << "b" >>
    /\ ENABLED AddParticipant

\* C13: when the trimmed value e of the participant input contains "@" and
\* is not in participants, addParticipant appends e as the last entry, keeps
\* the earlier entries in their order and clears the input; a further
\* addParticipant, with the cleared input or with e typed again, changes
\* nothing.
C13_AcceptedInputIsAppendedOnce ==
    [][(/\ AddParticipant \/ AddNewParticipant
        /\ InputAccepted
        /\ ~ includes(participants, trim(participantInput)))
          => LET e == trim(participantInput)
             IN  /\ participants' = Append(participants, e)
                 /\ participantInput' = << >>
                 /\ addParticipantResult(participants', participantInput')
                        .participants = participants'
                 /\ addParticipantResult(participants', participantInput)
                        .participants = participants'
                 /\ addParticipantResult(participants', e)
                        .participants = participants']_vars

\* part_001, where entries come from addParticipant only: "a@b" and then the
\* text " a@b.cc" have been added, the second trimmed, and the input is empty.
C13_Witness ==
    /\ rev = "part_001"
    /\ participants = << << "a", "@", "b" >>,
                         << "a", "@", "b", ".", "c", "c" >> >>
    /\ participantInput = << >>

\* C14: removeParticipant(email) removes the entry equal to email and keeps
\* every other entry in its relative order; for an email that is not in
\* participants it returns the list unchanged.
C14_RemoveTakesOutExactlyTheEntry ==
    /\ [](\A mail \in ParticipantTexts :
             ~ includes(participants, mail)
                => filterOut(participants, mail) = participants)
    /\ [][\A i \in DOMAIN participants :
             RemoveParticipant(participants[i])
                => participants' = without(participants, i)]_vars

\* meetingForm.tsx, which keeps a local user for every e-mail address added:
\* "a@b.cc" has been added before "a@b" and removed again.
C14_Witness ==
    /\ rev = "meetingForm"
    /\ participants = << << "a", "@", "b" >> >>
    /\ Len(users) = 2
    /\ users[1].email = << "a", "@", "b", ".", "c", "c" >>
    /\ users[2].email = << "a", "@", "b" >>

\* C15: for every entry e of participants, removeParticipant(e) followed by
\* addParticipant(e) yields the other entries in their previous order
\* followed by e.
C15_RemoveThenAddMovesToEnd ==
    \A i \in DOMAIN participants :
        LET e == participants[i]
            removed == filterOut(participants, e)
        IN  addParticipantResult(removed, e).participants = Append(removed, e)

\* The canonical separator of the participants string: a comma and a blank.
CanonicalSeparator == << ",", " " >>

\* C16: the participants field of every payload sent is the participants of
\* the submitted data, in their order, joined with ", "; it is the empty
\* string for the empty list.
C16_ParticipantsJoinedCanonically ==
    \A i \in DOMAIN calls :
        /\ calls[i].payload.participants
               = join(calls[i].data.participants, CanonicalSeparator)
        /\ calls[i].data.participants = << >>
               => calls[i].payload.participants = << >>

\* C17: in every payload sent, chairperson_name, chairperson_id and host_email
\* are the form's chairperson, chairpersonId and host at the moment of the
\* submit; part_000, where candidates come from the directory: a non-empty
\* chairperson_id is the id of a candidate whose display name is the
\* chairperson_name sent.
C17_PayloadCarriesTheChairperson ==
    /\ [][(OnSubmit /\ Len(calls') > Len(calls))
             => LET sent == calls'[Len(calls')].payload
                    submitted == Head(validating)
                IN  /\ sent.chairperson_name = submitted.data.chairperson
                    /\ sent.chairperson_id = submitted.chairpersonId
                    /\ sent.host_email = submitted.data.host]_vars
    /\ [](\A i \in DOMAIN calls :
             (rev = "part_000" /\ Truthy(calls[i].payload.chairperson_id))
                => \E k \in DOMAIN chairpersonCandidates :
                      /\ chairpersonCandidates[k].id
                             = calls[i].payload.chairperson_id
                      /\ chairpersonCandidates[k].name
                             = calls[i].payload.chairperson_name)

\* The number of bookMeeting calls started so far.
started == Len(calls) + Len(settled)

\* The resolver accepts the values of a submit event: handleSubmit goes on
\* to onSubmit.
ResolverAcceptsStep ==
    /\ validating # << >>
    /\ Head(validating).valid
    /\ validating' = Tail(validating)

\* C18 as stated: every submit that passes validation starts exactly one
\* bookMeeting call, and a call is started by such a submit only (none
\* after a rejection, until the user submits again).
C18_EveryValidSubmitStartsOneCall ==
    [][/\ ResolverAcceptsStep => started' = started + 1
       /\ started' # started
             => ResolverAcceptsStep /\ started' = started + 1]_vars

\* C18, amended: every submit that passes validation and, in
\* meetingForm.tsx, is made with a non-empty chairpersonId starts exactly one
\* bookMeeting call; a submit of meetingForm.tsx with an empty chairpersonId
\* starts none; a call is started by a submit only (none after a rejection,
\* until the user submits again).
C18_EveryAcceptedSubmitStartsOneCall ==
    [][LET accepted ==
               /\ ResolverAcceptsStep
               /\ rev = "meetingForm" => Truthy(Head(validating).chairpersonId)
       IN  /\ accepted => started' = started + 1
           /\ started' # started => accepted /\ started' = started + 1]_vars

\* meetingForm.tsx: a call has been rejected, and a later submit with valid
\* values and an empty chairpersonId has been answered with the notification
\* and has started no call.
C18_Witness ==
    /\ rev = "meetingForm"
    /\ Len(settled) = 1
    /\ settled[1].status = "rejected"
    /\ calls = << >>
    /\ validating = << >>
    /\ toast = SelectValidChairperson

\* The form's values pass the schema of the revision.
FormIsValid ==
    meetingFormSchema(rev, [ chairperson |-> chairperson, host |-> host,
                             participants |-> participants ])

C20_DropdownsNeverBothOpen ==
    ~ (chairpersonDropdownShown /\ participantsDropdownShown)

\* C21: a directory lookup that has failed or returned no users does not
\* block the form: while the candidate list is empty and the host field holds
\* no valid email, the form at rest offers a handler that puts a valid email
\* into the host field (typing into the input, or a pick in the host
\* dropdown), so that a submit starting a call stays within reach.
C21_EmptyDirectoryDoesNotBlock ==
    (userDocs = << >> /\ inputIdle /\ ~ loading /\ ~ zEmail(host))
        => \/ \E text \in HostTexts : zEmail(text) /\ ENABLED HostChange(text)
           \/ \E i \in 1..MaxUsers : ENABLED SelectHost(i)

C23_BlurSyncsChairpersonId ==
    [][ChairpersonBlur =>
          LET name == trim(chairperson)
              known == \E i \in DOMAIN users : users[i].name = name
          IN  IF name = << >>
              THEN /\ chairpersonId' = chairpersonId
                   /\ users' = users
                   /\ chairpersonOpen' = chairpersonOpen
              ELSE /\ \E i \in DOMAIN users' :
                          /\ users'[i].id = chairpersonId'
                          /\ users'[i].name = name
                   /\ known => users' = users
                   /\ ~ known =>
                          /\ Len(users') = Len(users) + 1
                          /\ SubSeq(users', 1, Len(users)) = users
                          /\ users'[Len(users')].id = chairpersonId'
                   /\ ~ chairpersonOpen']_vars

\* meetingForm.tsx: the field holds a text with a leading blank, the users
\* list holds a user named by the trimmed text next to an older user,
\* chairpersonId is that user's id and the dropdown is closed.
C23_Witness ==
    /\ rev = "meetingForm"
    /\ trim(chairperson) # chairperson
    /\ Len(users) = 2
    /\ users[2].name = trim(chairperson)
    /\ users[2].id = chairpersonId
    /\ ~ chairpersonOpen

\* C24: meetingForm.tsx, a candidate u has been picked in the chairperson
\* dropdown (the field holds u.name, chairpersonId is u.id, the dropdown is
\* closed) and the blur handler of the field runs next: afterwards
\* chairpersonId is still u.id, the field still holds u.name and the users
\* list has no new entry.
C24_BlurAfterPickKeepsThePick ==
    [][\A i \in DOMAIN users :
          (/\ rev = "meetingForm"
           /\ chairperson = users[i].name
           /\ chairpersonId = users[i].id
           /\ ~ chairpersonOpen
           /\ ChairpersonBlur)
              => /\ chairpersonId' = users[i].id
                 /\ chairperson' = users[i].name
                 /\ users' = users]_vars

=============================================================================
